---- MODULE Spec2Model ----
(***************************************************************************)
(* A model of gnet's reactor core (eventloop.go): the per-loop dispatch    *)
(* of readiness events to Accept / Opened / Read / Write / UDPRead, the    *)
(* action protocol (handleAction), connection close, the ticker routine    *)
(* and the server-wide shutdown latch.                                     *)
(*                                                                         *)
(* One dispatch of an event is one step: the loop is single-threaded and   *)
(* a handler runs to completion inside the dispatch.  The ordered list of  *)
(* calls a dispatch made (system calls, Poller calls, handler callbacks)   *)
(* is kept in `last` so that ordering properties inside one dispatch can   *)
(* be stated.                                                              *)
(***************************************************************************)
EXTENDS Integers, Sequences, FiniteSets, TLC

(***************************************************************************)
(* Bounds of the model.                                                    *)
(***************************************************************************)
NLoops == 2
MaxFds == 2
MaxConns == 2
MaxLoad == 2
MaxOut == 2
MaxQueued == 3
MaxRx == 2
MaxDelay == 2
MaxDelFail == 1

(***************************************************************************)
(* Program constants (scaled).                                             *)
(***************************************************************************)
connRingBufferSize == 2
ListenFd == 3

Loops == 0..(NLoops - 1)
ConnFDs == (ListenFd + 1)..(ListenFd + MaxFds)
ConnIds == 1..MaxConns

None == "None"
Close == "Close"
Shutdown == "Shutdown"
DataRead == "DataRead"
Unknown == "Unknown"
Actions == {None, Close, Shutdown, DataRead, Unknown}

Nil == "nil"
EAGAIN == "EAGAIN"
EIO == "EIO"
EPIPE == "EPIPE"
HardErrs == {EIO, EPIPE}
ErrClosing == "ErrClosing"

Min(a, b) == IF a < b THEN a ELSE b

\* The bytes lo+1 .. lo+n, in order: every byte of a stream is labelled by
\* its position in the stream, so loss, duplication and reordering show.
Bytes(lo, n) == [i \in 1..n |-> lo + i]

IsPrefix(s, t) == Len(s) <= Len(t) /\ SubSeq(t, 1, Len(s)) = s

(***************************************************************************)
(* RingBuffer: a growable circular byte buffer with a two-segment read     *)
(* view.  buf is the storage, r and w the read and write cursors (0-based) *)
(* and isEmpty tells r = w "empty" from r = w "full".                      *)
(***************************************************************************)
New(size) == [buf |-> [i \in 1..size |-> 0], r |-> 0, w |-> 0, isEmpty |-> TRUE]

Size(rb) == Len(rb.buf)

Length(rb) ==
    IF rb.isEmpty THEN 0
    ELSE IF rb.w > rb.r THEN rb.w - rb.r
    ELSE Size(rb) - rb.r + rb.w

Free(rb) == Size(rb) - Length(rb)

\* PreReadAll: <<top, tail>>; tail is <<>> when the data does not wrap.
PreReadAll(rb) ==
    IF rb.isEmpty THEN << <<>>, <<>> >>
    ELSE IF rb.w > rb.r THEN << SubSeq(rb.buf, rb.r + 1, rb.w), <<>> >>
    ELSE << SubSeq(rb.buf, rb.r + 1, Size(rb)), SubSeq(rb.buf, 1, rb.w) >>

Contents(rb) == PreReadAll(rb)[1] \o PreReadAll(rb)[2]

Advance(rb, n) ==
    IF n <= 0 THEN rb
    ELSE LET r2 == (rb.r + n) % Size(rb)
         IN  [rb EXCEPT !.r = r2, !.isEmpty = (r2 = rb.w)]

\* Growth: the data is moved to the front of a larger storage.
Grow(rb, extra) ==
    LET data == Contents(rb)
        size == Size(rb) + extra
    IN  [buf |-> [i \in 1..size |-> IF i <= Len(data) THEN data[i] ELSE 0],
         r |-> 0, w |-> Len(data) % size, isEmpty |-> (Len(data) = 0)]

RBWrite(rb, p) ==
    IF Len(p) = 0 THEN rb
    ELSE LET rb1 == IF Free(rb) < Len(p) THEN Grow(rb, Len(p) - Free(rb)) ELSE rb
             size == Size(rb1)
             at(i) == ((rb1.w + i - 1) % size) + 1
         IN  [buf |-> [j \in 1..size |->
                          IF \E i \in 1..Len(p) : at(i) = j
                          THEN p[CHOOSE i \in 1..Len(p) : at(i) = j]
                          ELSE rb1.buf[j]],
              r |-> rb1.r, w |-> (rb1.w + Len(p)) % size, isEmpty |-> FALSE]


(***************************************************************************)
(* State.                                                                  *)
(***************************************************************************)
VARIABLES
    opts,          \* server options [ticker, udp, nloops], and the number of clients
    lpState,       \* per loop: "off", "start", "polling", "sending", "returned", "done"
    connections,   \* per loop: fd -> conn, the loop's connections table
    poller,        \* per loop: fd -> interest set, the Poller's registrations
    pollerClosed,  \* the server has closed the Pollers
    jobs,          \* per loop: the Poller's queue of injected jobs
    openFds,       \* the descriptors of accepted sockets that are open
    hist,          \* per connection id: what has happened to the connection
    nextId,        \* the id of the next connection to be accepted
    once,          \* the server's shutdown latch
    notified,      \* number of shutdown notifications observable outside
    sigCalls,      \* per loop: number of calls of signalShutdown
    tickerPc,      \* the ticker routine: "off", "trigger", "recv", "sleep", "exited"
    tch,           \* the delay handoff channel: <<>> or <<delay>> offered by a blocked sender
    slept,         \* the delay the ticker routine last slept for
    tickJob,       \* the tick job blocked on the handoff: <<>> or <<[delay, action]>>
    last           \* the dispatch made by the last step, if it was one:
                   \* [lp, fd, id, proc, trace, ret]

vars == <<opts, lpState, connections, poller, pollerClosed, jobs, openFds, hist,
          nextId, once, notified, sigCalls, tickerPc, tch, slept,
          tickJob, last>>

connVars == <<connections, poller, openFds, hist, nextId>>
tickVars == <<tickerPc, tch, slept, tickJob>>
svrVars == <<once, notified, sigCalls, pollerClosed>>

Drop(f, k) == [x \in DOMAIN f \ {k} |-> f[x]]
Put(f, k, v) == [x \in DOMAIN f \cup {k} |-> IF x = k THEN v ELSE f[x]]

NoHist == [fd |-> 0, opens |-> 0, reacts |-> 0, closes |-> 0, gone |-> FALSE,
           rx |-> 0, queued |-> 0, sent |-> <<>>, expIn |-> <<>>]

NoLast == [lp |-> -1, fd |-> -1, id |-> 0, proc |-> "none", trace |-> <<>>, ret |-> Nil]

RunLoops == 0..(opts.nloops - 1)

\* The size of a deployment: loops beyond the first, the ticker, a datagram
\* listener, the clients that connect.
Load(o) == (o.nloops - 1) + (IF o.ticker THEN 1 ELSE 0) + (IF o.udp THEN 1 ELSE 0) + o.clients

RECURSIVE Sum(_, _)
Sum(f, S) == IF S = {} THEN 0 ELSE LET x == CHOOSE x \in S : TRUE IN f[x] + Sum(f, S \ {x})

\* Bytes received from, and output bytes produced for, all the clients so far.
TotalRx == Sum([id \in ConnIds |-> hist[id].rx], ConnIds)
TotalQueued == Sum([id \in ConnIds |-> hist[id].queued], ConnIds)

InitWith(o) ==
    /\ opts = o
    /\ lpState = [lp \in Loops |-> IF lp < o.nloops THEN "start" ELSE "off"]
    /\ connections = [lp \in Loops |-> << >>]
    /\ poller = [lp \in Loops |-> (ListenFd :> {"r"})]
    /\ pollerClosed = FALSE
    /\ jobs = [lp \in Loops |-> << >>]
    /\ openFds = {}
    /\ hist = [id \in ConnIds |-> NoHist]
    /\ nextId = 1
    /\ once = FALSE
    /\ notified = 0
    /\ sigCalls = [lp \in Loops |-> 0]
    /\ tickerPc = "off"
    /\ tch = << >>
    /\ slept = 0
    /\ tickJob = << >>
    /\ last = NoLast

\* The deployments checked: those of size MaxLoad.
Deployments ==
    {o \in [ticker : BOOLEAN, udp : BOOLEAN, nloops : 1..NLoops, clients : 0..MaxConns] :
        /\ Load(o) = MaxLoad
        /\ o.udp => o.clients = 0}

Init == \E o \in Deployments : InitWith(o)

(***************************************************************************)
(* The state one dispatch works on: this loop's table and registrations,   *)
(* the open descriptors, the histories, the calls made so far and the      *)
(* value the dispatch returns.  action is c.action of the connection the   *)
(* dispatch is for: the field is assigned in every dispatch before it is   *)
(* read, so it is kept for the time of the dispatch only.                  *)
(***************************************************************************)
Enter(lp) == [conns |-> connections[lp], poll |-> poller[lp], open |-> openFds,
              hist |-> hist, nid |-> nextId, action |-> None, trace |-> << >>,
              ret |-> Nil]

\* A call made by the dispatch: n and m are numbers, x and y are names.
Log(s, op, n, m, x, y) ==
    [s EXCEPT !.trace = Append(@, [op |-> op, n |-> n, m |-> m, x |-> x, y |-> y])]

Return(s, err) == [s EXCEPT !.ret = err]

\* What a non-blocking write of a buffer of length len may return.
WriteResults(len) == [n : 1..len, err : {Nil}] \cup [n : {-1}, err : {EAGAIN, EPIPE}]

\* unix.Write(c.fd, p) returned res: the bytes the socket took reach the peer.
SockWrite(s, fd, p, res) ==
    LET id == s.conns[fd].id
        s1 == IF res.err = Nil
              THEN [s EXCEPT !.hist[id].sent = @ \o SubSeq(p, 1, res.n)]
              ELSE s
    IN  Log(s1, "write", Len(p), IF res.err = Nil THEN res.n ELSE 0, res.err, "")

(***************************************************************************)
(* Poller operations on the dispatch state.                                *)
(***************************************************************************)
AddReadWrite(s, fd) == [s EXCEPT !.poll = Put(@, fd, {"r", "w"})]
AddWrite(s, fd) == [s EXCEPT !.poll = Put(@, fd, (IF fd \in DOMAIN @ THEN @[fd] ELSE {}) \cup {"w"})]
ModRead(s, fd) == [s EXCEPT !.poll = Put(@, fd, {"r"})]
ModReadWrite(s, fd) == [s EXCEPT !.poll = Put(@, fd, {"r", "w"})]
Delete(s, fd) == [s EXCEPT !.poll = Drop(@, fd)]


(***************************************************************************)
(* conn.open and conn.write, the send path: the socket takes the first k   *)
(* bytes (k = 0: would block) and the rest is queued in outBuf; write also *)
(* registers write interest for what it queued.                            *)
(***************************************************************************)
connOpen(s, fd, out, k) ==
    LET id == s.conns[fd].id
        s1 == [s EXCEPT !.hist[id].sent = @ \o SubSeq(out, 1, k),
                        !.hist[id].queued = @ + Len(out),
                        !.conns[fd].outBuf = RBWrite(@, SubSeq(out, k + 1, Len(out)))]
    IN  Log(s1, "send", Len(out), k, "", "")

connWrite(s, fd, out, k) ==
    LET id == s.conns[fd].id
        s1 == [s EXCEPT !.hist[id].sent = @ \o SubSeq(out, 1, k),
                        !.hist[id].queued = @ + Len(out),
                        !.conns[fd].outBuf = RBWrite(@, SubSeq(out, k + 1, Len(out)))]
        s2 == Log(s1, "send", Len(out), k, "", "")
    IN  IF k < Len(out) THEN Log(ModReadWrite(s2, fd), "ModReadWrite", fd, 0, "", "") ELSE s2

(***************************************************************************)
(* loopCloseConn(c, err): delOk is whether Poller.Delete succeeded and act *)
(* the Action OnClosed returned.                                           *)
(***************************************************************************)
\* Mutant: the entry stays in the connections table.
forget_KeepEntry(s, fd) ==
    Log([s EXCEPT !.open = @ \ {fd}], "close", fd, 0, "", "")

\* delete(lp.connections, c.fd); unix.Close(c.fd)
forget(s, fd) ==
    Log([s EXCEPT !.conns = Drop(@, fd), !.open = @ \ {fd}], "close", fd, 0, "", "")

\* Mutant: the triggering error is returned to Polling.
loopCloseConn_ReturnsErr(s, fd, err, delOk, act) ==
    LET c == s.conns[fd]
        s1 == Log(s, "Delete", fd, 0, IF delOk THEN "ok" ELSE "fail", "")
        s2 == IF delOk
              THEN forget([Delete(s1, fd) EXCEPT !.hist[c.id].gone = TRUE], fd)
              ELSE s1
        s3 == Log([s2 EXCEPT !.hist[c.id].closes = @ + 1], "OnClosed", 0, c.id, err, act)
    IN  IF act = Shutdown THEN Return(s3, ErrClosing) ELSE Return(s3, err)

\* Mutant: the connection is removed and closed whatever Delete returned.
loopCloseConn_AlwaysForget(s, fd, err, delOk, act) ==
    LET c == s.conns[fd]
        s1 == Log(s, "Delete", fd, 0, IF delOk THEN "ok" ELSE "fail", "")
        s2 == forget([(IF delOk THEN Delete(s1, fd) ELSE s1) EXCEPT !.hist[c.id].gone = TRUE], fd)
        s3 == Log([s2 EXCEPT !.hist[c.id].closes = @ + 1], "OnClosed", 0, c.id, err, act)
    IN  CASE act = None -> Return(s3, Nil)
          [] act = Shutdown -> Return(s3, ErrClosing)
          [] OTHER -> Return(s3, Nil)

loopCloseConn(s, fd, err, delOk, act) ==
    LET c == s.conns[fd]
        s1 == Log(s, "Delete", fd, 0, IF delOk THEN "ok" ELSE "fail", "")
        s2 == IF delOk
              THEN forget([Delete(s1, fd) EXCEPT !.hist[c.id].gone = TRUE], fd)
              ELSE s1
        s3 == Log([s2 EXCEPT !.hist[c.id].closes = @ + 1], "OnClosed", 0, c.id, err, act)
    IN  CASE act = None -> Return(s3, Nil)
          [] act = Shutdown -> Return(s3, ErrClosing)
          [] OTHER -> Return(s3, Nil)

(***************************************************************************)
(* handleAction(c): interprets c.action.                                   *)
(***************************************************************************)
\* Mutant: an orderly close reports ErrClosing to OnClosed.
handleAction_CloseErr(s, fd, delOk, act) ==
    LET a == s.action
        s1 == Log(s, "handleAction", fd, 0, a, "")
    IN  CASE a = None -> Return(s1, Nil)
          [] a = Close -> loopCloseConn(s1, fd, ErrClosing, delOk, act)
          [] a = Shutdown -> Return(s1, ErrClosing)
          [] OTHER -> Return(s1, Nil)

\* Mutant: Shutdown falls to the default branch.
handleAction_NoShutdown(s, fd, delOk, act) ==
    LET a == s.action
        s1 == Log(s, "handleAction", fd, 0, a, "")
    IN  CASE a = None -> Return(s1, Nil)
          [] a = Close -> loopCloseConn(s1, fd, Nil, delOk, act)
          [] OTHER -> Return(s1, Nil)

handleAction(s, fd, delOk, act) ==
    LET a == s.action
        s1 == Log(s, "handleAction", fd, 0, a, "")
    IN  CASE a = None -> Return(s1, Nil)
          [] a = Close -> loopCloseConn(s1, fd, Nil, delOk, act)
          [] a = Shutdown -> Return(s1, ErrClosing)
          [] OTHER -> Return(s1, Nil)

(***************************************************************************)
(* loopOpened(c): OnOpened returned <<out, action>>; the socket takes k    *)
(* bytes of out.                                                           *)
(***************************************************************************)
\* Mutant: the opened flag is not set.
setOpened_Skip(s, fd) == s

setOpened(s, fd) == [s EXCEPT !.conns[fd].opened = TRUE]

\* Mutant: Close and Shutdown are interpreted before the output is sent.
loopOpened_ActionFirst(s, fd, out, action, k, delOk, act) ==
    LET id == s.conns[fd].id
        s1 == setOpened(s, fd)
        s2 == Log([s1 EXCEPT !.hist[id].opens = @ + 1], "OnOpened", Len(out), id, action, "")
        s3 == [s2 EXCEPT !.action = action]
        s4 == IF Len(out) > 0 THEN connOpen(s3, fd, out, k) ELSE s3
        s5 == IF Length(s4.conns[fd].outBuf) # 0
              THEN Log(AddWrite(s4, fd), "AddWrite", fd, 0, "", "")
              ELSE s4
    IN  IF action \in {Close, Shutdown}
        THEN handleAction(s3, fd, delOk, act)
        ELSE handleAction(s5, fd, delOk, act)

loopOpened(s, fd, out, action, k, delOk, act) ==
    LET id == s.conns[fd].id
        s1 == setOpened(s, fd)
        s2 == Log([s1 EXCEPT !.hist[id].opens = @ + 1], "OnOpened", Len(out), id, action, "")
        s3 == [s2 EXCEPT !.action = action]
        s4 == IF Len(out) > 0 THEN connOpen(s3, fd, out, k) ELSE s3
        s5 == IF Length(s4.conns[fd].outBuf) # 0
              THEN Log(AddWrite(s4, fd), "AddWrite", fd, 0, "", "")
              ELSE s4
    IN  handleAction(s5, fd, delOk, act)

(***************************************************************************)
(* loopRead(c): unix.Read returned rd = [n, err]; React returned           *)
(* <<out, action>>; the socket takes k bytes of out.                       *)
(***************************************************************************)
ReadResults == [n : 0..MaxRx, err : {Nil}] \cup [n : {-1}, err : {EAGAIN, EIO}]

\* Mutant: the bytes are kept whatever the action.
keepInput_Always(s, fd, extra, action) ==
    Log([s EXCEPT !.conns[fd].inBuf = RBWrite(@, extra)], "inBuf.Write", Len(extra), 0, "", "")

\* The bytes read are kept in inBuf unless React marked them consumed.
keepInput(s, fd, extra, action) ==
    IF action # DataRead
    THEN Log([s EXCEPT !.conns[fd].inBuf = RBWrite(@, extra)], "inBuf.Write", Len(extra), 0, "", "")
    ELSE s

loopRead(s, fd, rd, out, action, k, delOk, act) ==
    LET id == s.conns[fd].id
        s1 == Log(s, "read", rd.n, 0, rd.err, "")
    IN  IF rd.n = 0 \/ rd.err # Nil
        THEN IF rd.err = EAGAIN
             THEN Return(s1, Nil)
             ELSE loopCloseConn(s1, fd, rd.err, delOk, act)
        ELSE LET extra == Bytes(s1.hist[id].rx, rd.n)
                 s2 == [s1 EXCEPT !.hist[id].rx = @ + rd.n]
                 s3 == Log([s2 EXCEPT !.hist[id].reacts = @ + 1],
                           "React", Len(out), id, action, "")
                 s4 == [s3 EXCEPT !.action = action]
                 s5 == IF Len(out) > 0
                       THEN connWrite(s4, fd, out, k)
                       ELSE keepInput(s4, fd, extra, action)
             IN  handleAction(s5, fd, delOk, act)

(***************************************************************************)
(* loopWrite(c): w1 and w2 are what unix.Write returned for the first and  *)
(* the second segment.                                                     *)
(***************************************************************************)
\* Mutant: the read cursor is not advanced after a write.
advanceOut_Skip(s, fd, n) == s

advanceOut(s, fd, n) == [s EXCEPT !.conns[fd].outBuf = Advance(@, n)]

\* Mutant: EAGAIN on the second segment closes the connection.
loopWrite_TailEagainCloses(s, fd, w1, w2, delOk, act) ==
    LET s0 == Log(s, "PreWrite", 0, 0, "", "")
        top == PreReadAll(s0.conns[fd].outBuf)[1]
        tail == PreReadAll(s0.conns[fd].outBuf)[2]
        s1 == SockWrite(s0, fd, top, w1)
    IN  IF w1.err # Nil
        THEN IF w1.err = EAGAIN
             THEN Return(s1, Nil)
             ELSE loopCloseConn(s1, fd, w1.err, delOk, act)
        ELSE LET s2 == advanceOut(s1, fd, w1.n)
                 drained(t) == IF Length(t.conns[fd].outBuf) = 0
                               THEN Log(ModRead(t, fd), "ModRead", fd, 0, "", "")
                               ELSE t
             IN  IF Len(top) = w1.n /\ tail # << >>
                 THEN LET s3 == SockWrite(s2, fd, tail, w2)
                      IN  IF w2.err # Nil
                          THEN loopCloseConn(s3, fd, w2.err, delOk, act)
                          ELSE Return(drained(advanceOut(s3, fd, w2.n)), Nil)
                 ELSE Return(drained(s2), Nil)

loopWrite(s, fd, w1, w2, delOk, act) ==
    LET s0 == Log(s, "PreWrite", 0, 0, "", "")
        top == PreReadAll(s0.conns[fd].outBuf)[1]
        tail == PreReadAll(s0.conns[fd].outBuf)[2]
        s1 == SockWrite(s0, fd, top, w1)
    IN  IF w1.err # Nil
        THEN IF w1.err = EAGAIN
             THEN Return(s1, Nil)
             ELSE loopCloseConn(s1, fd, w1.err, delOk, act)
        ELSE LET s2 == advanceOut(s1, fd, w1.n)
                 drained(t) == IF Length(t.conns[fd].outBuf) = 0
                               THEN Log(ModRead(t, fd), "ModRead", fd, 0, "", "")
                               ELSE t
             IN  IF Len(top) = w1.n /\ tail # << >>
                 THEN LET s3 == SockWrite(s2, fd, tail, w2)
                      IN  IF w2.err # Nil
                          THEN IF w2.err = EAGAIN
                               THEN Return(s3, Nil)
                               ELSE loopCloseConn(s3, fd, w2.err, delOk, act)
                          ELSE Return(drained(advanceOut(s3, fd, w2.n)), Nil)
                 ELSE Return(drained(s2), Nil)


(***************************************************************************)
(* loopUDPRead(fd): in.rv is what unix.Recvfrom returned, in.sa the        *)
(* sender, in.outLen and in.action what React returned, in.sendOk whether  *)
(* unix.Sendto succeeded.                                                  *)
(***************************************************************************)
Addrs == {"A", "B"}

\* Mutant: a failure of Sendto is returned to Polling.
loopUDPRead_SendErr(s, fd, in) ==
    LET s1 == Log(s, "Recvfrom", in.rv.n, 0, in.rv.err, in.sa)
    IN  IF in.rv.err # Nil \/ in.rv.n = 0
        THEN Return(s1, Nil)
        ELSE LET inBuf == RBWrite(New(connRingBufferSize), Bytes(0, in.rv.n))
                 s2 == Log(s1, "React", in.outLen, Length(inBuf), in.action, in.sa)
                 s3 == IF in.outLen > 0
                       THEN Log(Log(s2, "PreWrite", 0, 0, "", ""),
                                "Sendto", in.outLen, 0, IF in.sendOk THEN "ok" ELSE "fail", in.sa)
                       ELSE s2
                 s4 == Log(s3, "action", 0, 0, in.action, "")
             IN  CASE in.action = Shutdown -> Return(s4, ErrClosing)
                   [] in.outLen > 0 /\ ~in.sendOk -> Return(s4, EIO)
                   [] OTHER -> Return(s4, Nil)

loopUDPRead(s, fd, in) ==
    LET s1 == Log(s, "Recvfrom", in.rv.n, 0, in.rv.err, in.sa)
    IN  IF in.rv.err # Nil \/ in.rv.n = 0
        THEN Return(s1, Nil)
        ELSE LET inBuf == RBWrite(New(connRingBufferSize), Bytes(0, in.rv.n))
                 s2 == Log(s1, "React", in.outLen, Length(inBuf), in.action, in.sa)
                 s3 == IF in.outLen > 0
                       THEN Log(Log(s2, "PreWrite", 0, 0, "", ""),
                                "Sendto", in.outLen, 0, IF in.sendOk THEN "ok" ELSE "fail", in.sa)
                       ELSE s2
                 s4 == Log(s3, "action", 0, 0, in.action, "")
             IN  CASE in.action = Shutdown -> Return(s4, ErrClosing)
                   [] OTHER -> Return(s4, Nil)

(***************************************************************************)
(* loopAccept(fd): in.acc is the error of unix.Accept, in.nfd the new      *)
(* descriptor, in.nbOk and in.addOk whether SetNonblock and AddReadWrite   *)
(* succeeded.                                                              *)
(***************************************************************************)
NewConn(id) == [id |-> id, opened |-> FALSE,
                inBuf |-> New(connRingBufferSize), outBuf |-> New(connRingBufferSize)]

\* Mutant: the connection is put in the table though AddReadWrite failed.
loopAccept_AddAnyway(s, fd, udp, in) ==
    IF fd = ListenFd
    THEN IF udp
         THEN loopUDPRead(s, fd, in)
         ELSE LET s1 == Log(s, "accept", IF in.acc = Nil THEN in.nfd ELSE -1, 0, in.acc, "")
              IN  IF in.acc # Nil
                  THEN IF in.acc = EAGAIN THEN Return(s1, Nil) ELSE Return(s1, in.acc)
                  ELSE LET s2 == [s1 EXCEPT !.open = @ \cup {in.nfd}, !.nid = @ + 1,
                                            !.hist[s.nid].fd = in.nfd]
                           s3 == Log(s2, "SetNonblock", in.nfd, 0, IF in.nbOk THEN "ok" ELSE "fail", "")
                       IN  IF ~in.nbOk
                           THEN Return(s3, EIO)
                           ELSE LET c == NewConn(s.nid)
                                    s4 == Log(s3, "AddReadWrite", in.nfd, 0,
                                              IF in.addOk THEN "ok" ELSE "fail", "")
                                IN  IF in.addOk
                                    THEN Return([AddReadWrite(s4, in.nfd) EXCEPT
                                                    !.conns = Put(@, in.nfd, c)], Nil)
                                    ELSE Return([s4 EXCEPT !.conns = Put(@, in.nfd, c)], EIO)
    ELSE Return(s, Nil)

loopAccept(s, fd, udp, in) ==
    IF fd = ListenFd
    THEN IF udp
         THEN loopUDPRead(s, fd, in)
         ELSE LET s1 == Log(s, "accept", IF in.acc = Nil THEN in.nfd ELSE -1, 0, in.acc, "")
              IN  IF in.acc # Nil
                  THEN IF in.acc = EAGAIN THEN Return(s1, Nil) ELSE Return(s1, in.acc)
                  ELSE LET s2 == [s1 EXCEPT !.open = @ \cup {in.nfd}, !.nid = @ + 1,
                                            !.hist[s.nid].fd = in.nfd]
                           s3 == Log(s2, "SetNonblock", in.nfd, 0, IF in.nbOk THEN "ok" ELSE "fail", "")
                       IN  IF ~in.nbOk
                           THEN Return(s3, EIO)
                           ELSE LET c == NewConn(s.nid)
                                    s4 == Log(s3, "AddReadWrite", in.nfd, 0,
                                              IF in.addOk THEN "ok" ELSE "fail", "")
                                IN  IF in.addOk
                                    THEN Return([AddReadWrite(s4, in.nfd) EXCEPT
                                                    !.conns = Put(@, in.nfd, c)], Nil)
                                    ELSE Return(s4, EIO)
    ELSE Return(s, Nil)


(***************************************************************************)
(* loopRun: the dispatch function given to Polling.  Route is its choice   *)
(* of procedure for an event on fd.                                        *)
(***************************************************************************)
FDs == {ListenFd} \cup ConnFDs

\* Mutant: an opened connection is always read.
Route_NoWrite(lp, fd) ==
    IF fd = 0 THEN "Job"
    ELSE IF fd \in DOMAIN connections[lp]
         THEN LET c == connections[lp][fd]
              IN  IF ~c.opened THEN "Opened" ELSE "Read"
         ELSE "Accept"

Route(lp, fd) ==
    IF fd = 0 THEN "Job"
    ELSE IF fd \in DOMAIN connections[lp]
         THEN LET c == connections[lp][fd]
              IN  IF ~c.opened THEN "Opened"
                  ELSE IF Length(c.outBuf) > 0 THEN "Write"
                  ELSE "Read"
         ELSE "Accept"

\* Polling calls the dispatch function while the loop polls, and returns
\* when the dispatch function returns an error.
Polls(lp) == lpState[lp] = "polling"

Commit(lp, s, proc, fd, id) ==
    /\ connections' = [connections EXCEPT ![lp] = s.conns]
    /\ poller' = [poller EXCEPT ![lp] = s.poll]
    /\ openFds' = s.open
    /\ hist' = s.hist
    /\ nextId' = s.nid
    /\ last' = [lp |-> lp, fd |-> fd, id |-> id, proc |-> proc, trace |-> s.trace, ret |-> s.ret]
    /\ lpState' = [lpState EXCEPT ![lp] = IF s.ret = Nil THEN "polling" ELSE "returned"]
    /\ UNCHANGED <<opts, jobs, svrVars, tickVars>>

ClosedActions == {None, Shutdown, Close}

\* Poller.Delete may fail; the number of failures is bounded.
DelFails == Sum([id \in ConnIds |-> hist[id].closes - (IF hist[id].gone THEN 1 ELSE 0)], ConnIds)
DeleteResults == IF DelFails < MaxDelFail THEN BOOLEAN ELSE {TRUE}

\* The inputs of a dispatch are drawn only where the dispatch uses them.
Only(used, S, dflt) == IF used THEN S ELSE {dflt}

loopRunOpened(lp, fd) ==
    /\ Polls(lp)
    /\ Route(lp, fd) = "Opened"
    /\ LET c == connections[lp][fd]
       IN  \E outLen \in 0..MaxOut, action \in Actions :
             /\ TotalQueued + outLen <= MaxQueued
             /\ \E k \in 0..outLen,
                   delOk \in Only(action = Close, DeleteResults, TRUE),
                   act \in Only(action = Close, ClosedActions, None) :
                  Commit(lp, loopOpened(Enter(lp), fd, Bytes(hist[c.id].queued, outLen),
                                        action, k, delOk, act),
                         "Opened", fd, c.id)

\* What inBuf is to hold: the bytes of the reads for which React returned no
\* output and an action other than DataRead.
Expect(s, id, rd, outLen, action) ==
    IF rd.err = Nil /\ rd.n > 0 /\ outLen = 0 /\ action # DataRead
    THEN [s EXCEPT !.hist[id].expIn = @ \o Bytes(hist[id].rx, rd.n)]
    ELSE s

loopRunRead(lp, fd) ==
    /\ Polls(lp)
    /\ Route(lp, fd) = "Read"
    /\ LET c == connections[lp][fd]
       IN  \E rd \in ReadResults :
             LET data == rd.err = Nil /\ rd.n > 0
                 fatal == rd.err \in HardErrs \/ (rd.err = Nil /\ rd.n = 0)
             IN  /\ TotalRx + rd.n <= MaxRx
                 /\ \E outLen \in Only(data, 0..MaxOut, 0), action \in Only(data, Actions, None) :
                      /\ TotalQueued + outLen <= MaxQueued
                      /\ \E k \in 0..outLen,
                            delOk \in Only(fatal \/ action = Close, DeleteResults, TRUE),
                            act \in Only(fatal \/ action = Close, ClosedActions, None) :
                           Commit(lp, Expect(loopRead(Enter(lp), fd, rd,
                                                      Bytes(hist[c.id].queued, outLen),
                                                      action, k, delOk, act),
                                             c.id, rd, outLen, action),
                                  "Read", fd, c.id)

loopRunWrite(lp, fd) ==
    /\ Polls(lp)
    /\ Route(lp, fd) = "Write"
    /\ LET c == connections[lp][fd]
           top == PreReadAll(c.outBuf)[1]
           tail == PreReadAll(c.outBuf)[2]
       IN  \E w1 \in WriteResults(Len(top)) :
             \E w2 \in Only(w1.n = Len(top) /\ tail # << >>, WriteResults(Len(tail)),
                            [n |-> -1, err |-> EAGAIN]) :
               \E delOk \in Only(w1.err \in HardErrs \/ w2.err \in HardErrs, DeleteResults, TRUE),
                  act \in Only(w1.err \in HardErrs \/ w2.err \in HardErrs, ClosedActions, None) :
                 Commit(lp, loopWrite(Enter(lp), fd, w1, w2, delOk, act), "Write", fd, c.id)

LowestFree == CHOOSE f \in ConnFDs \ openFds : \A g \in ConnFDs \ openFds : f <= g

NoDatagram == [rv |-> [n |-> 0, err |-> Nil], sa |-> "A", outLen |-> 0,
               action |-> None, sendOk |-> TRUE]
NoAccept == [acc |-> EAGAIN, nfd |-> -1, nbOk |-> TRUE, addOk |-> TRUE]

Merge(a, b) == [acc |-> a.acc, nfd |-> a.nfd, nbOk |-> a.nbOk, addOk |-> a.addOk,
                rv |-> b.rv, sa |-> b.sa, outLen |-> b.outLen, action |-> b.action,
                sendOk |-> b.sendOk]

loopRunAccept(lp, fd) ==
    /\ Polls(lp)
    /\ fd \in FDs
    /\ Route(lp, fd) = "Accept"
    /\ \/ /\ fd # ListenFd
          /\ \E id \in ConnIds : hist[id].gone /\ hist[id].fd = fd
          /\ Commit(lp, loopAccept(Enter(lp), fd, opts.udp, Merge(NoAccept, NoDatagram)),
                    "Accept", fd, 0)
       \/ /\ fd = ListenFd /\ ~opts.udp
          /\ \E acc \in {EAGAIN, EIO} :
               Commit(lp, loopAccept(Enter(lp), fd, opts.udp,
                                     Merge([NoAccept EXCEPT !.acc = acc], NoDatagram)),
                      "Accept", fd, 0)
       \/ /\ fd = ListenFd /\ ~opts.udp
          /\ nextId <= opts.clients
          /\ ConnFDs \ openFds # {}
          /\ \E nbOk \in BOOLEAN, addOk \in BOOLEAN :
               Commit(lp, loopAccept(Enter(lp), fd, opts.udp,
                                     Merge([acc |-> Nil, nfd |-> LowestFree,
                                            nbOk |-> nbOk, addOk |-> addOk], NoDatagram)),
                      "Accept", fd, nextId)
       \/ /\ fd = ListenFd /\ opts.udp
          /\ \E rv \in ReadResults, sa \in Addrs :
             \E outLen \in Only(rv.err = Nil /\ rv.n > 0, 0..MaxOut, 0),
                action \in Only(rv.err = Nil /\ rv.n > 0, Actions, None) :
              \E sendOk \in Only(outLen > 0, BOOLEAN, TRUE) :
               Commit(lp, loopAccept(Enter(lp), fd, opts.udp,
                                     Merge(NoAccept, [rv |-> rv, sa |-> sa, outLen |-> outLen,
                                                      action |-> action, sendOk |-> sendOk])),
                      "UDPRead", fd, 0)


(***************************************************************************)
(* The injected job (fd = 0).  The tick job is the closure loopTicker gives   *)
(* to Trigger: it calls Tick, offers the delay on the handoff channel and  *)
(* blocks until the ticker routine has received it.                        *)
(***************************************************************************)
Delays == 1..MaxDelay

TickTrace(delay, action) ==
    <<[op |-> "Tick", n |-> delay, m |-> 0, x |-> action, y |-> ""],
      [op |-> "tch<-", n |-> delay, m |-> 0, x |-> "", y |-> ""]>>

\* Mutant: the job is run beside the loop, which goes on polling.
loopRunTick_Async(lp) ==
    /\ Polls(lp)
    /\ jobs[lp] # << >> /\ Head(jobs[lp]) = "tick"
    /\ \E delay \in Delays, action \in ClosedActions :
         /\ tch' = <<delay>>
         /\ tickJob' = <<[delay |-> delay, action |-> action]>>
         /\ last' = [lp |-> lp, fd |-> 0, id |-> 0, proc |-> "Job",
                     trace |-> TickTrace(delay, action), ret |-> "pending"]
    /\ jobs' = [jobs EXCEPT ![lp] = Tail(@)]
    /\ UNCHANGED <<opts, lpState, connVars, svrVars, tickerPc, slept>>

loopRunTick(lp) ==
    /\ Polls(lp)
    /\ jobs[lp] # << >> /\ Head(jobs[lp]) = "tick"
    /\ \E delay \in Delays, action \in ClosedActions :
         /\ tch' = <<delay>>
         /\ tickJob' = <<[delay |-> delay, action |-> action]>>
         /\ last' = [lp |-> lp, fd |-> 0, id |-> 0, proc |-> "Job",
                     trace |-> TickTrace(delay, action), ret |-> "pending"]
    /\ jobs' = [jobs EXCEPT ![lp] = Tail(@)]
    /\ lpState' = [lpState EXCEPT ![lp] = "sending"]
    /\ UNCHANGED <<opts, connVars, svrVars, tickerPc, slept>>

\* The send has completed: the job returns.
TickResult(action) ==
    CASE action = None -> Nil
      [] action = Shutdown -> ErrClosing
      [] OTHER -> Nil

loopRunTickReturn(lp) ==
    /\ lpState[lp] = "sending"
    /\ tch = << >>
    /\ last' = [lp |-> lp, fd |-> 0, id |-> 0, proc |-> "Job",
                trace |-> TickTrace(tickJob[1].delay, tickJob[1].action),
                ret |-> TickResult(tickJob[1].action)]
    /\ lpState' = [lpState EXCEPT ![lp] = IF TickResult(tickJob[1].action) = Nil
                                          THEN "polling" ELSE "returned"]
    /\ tickJob' = << >>
    /\ UNCHANGED <<opts, connVars, svrVars, jobs, tickerPc, tch, slept>>

(***************************************************************************)
(* loopTicker: Trigger the job, receive the delay, sleep, again.           *)
(***************************************************************************)
\* Poller.Trigger succeeds while the loop runs and fails once the Poller is
\* closed; in between (the loop has stopped, its Poller is not closed yet)
\* it may do either.
TriggerResults ==
    {ok \in BOOLEAN : /\ ok => ~pollerClosed
                      /\ ~ok => (pollerClosed \/ lpState[0] \in {"returned", "done"})}

loopTickerTrigger ==
    /\ tickerPc = "trigger"
    /\ \E ok \in TriggerResults :
         IF ok
         THEN /\ tickerPc' = "recv"
              /\ jobs' = [jobs EXCEPT ![0] = Append(@, "tick")]
         ELSE /\ tickerPc' = "exited"
              /\ UNCHANGED jobs
    /\ UNCHANGED <<opts, lpState, connVars, svrVars, tch, slept, tickJob>>
    /\ last' = NoLast

\* Mutant: the next job is submitted without sleeping.
loopTickerRecv_NoSleep ==
    /\ tickerPc = "recv"
    /\ tch # << >>
    /\ tch' = << >>
    /\ tickerPc' = "trigger"
    /\ UNCHANGED <<opts, lpState, connVars, svrVars, jobs, tickJob, slept>>
    /\ last' = NoLast

loopTickerRecv ==
    /\ tickerPc = "recv"
    /\ tch # << >>
    /\ slept' = tch[1]
    /\ tch' = << >>
    /\ tickerPc' = "sleep"
    /\ UNCHANGED <<opts, lpState, connVars, svrVars, jobs, tickJob>>
    /\ last' = NoLast

loopTickerWake ==
    /\ tickerPc = "sleep"
    /\ tickerPc' = "trigger"
    /\ UNCHANGED <<opts, lpState, connVars, svrVars, jobs, tch, slept, tickJob>>
    /\ last' = NoLast

(***************************************************************************)
(* loopRun's entry and exit, and the server around the loops.              *)
(***************************************************************************)
loopRunStart(lp) ==
    /\ lpState[lp] = "start"
    /\ lpState' = [lpState EXCEPT ![lp] = "polling"]
    /\ tickerPc' = IF lp = 0 /\ opts.ticker THEN "trigger" ELSE tickerPc
    /\ UNCHANGED <<opts, connVars, svrVars, jobs, tch, slept, tickJob>>
    /\ last' = NoLast

\* Polling returns for a reason outside the dispatch function: the wait call
\* fails, or the server stops the loop.
PollingError(lp) ==
    /\ Polls(lp)
    /\ lpState' = [lpState EXCEPT ![lp] = "returned"]
    /\ UNCHANGED <<opts, connVars, svrVars, jobs, tickVars>>
    /\ last' = NoLast

\* server.signalShutdown: the first call notifies, the others do nothing.
signalShutdown(o, n) == IF o THEN <<o, n>> ELSE <<TRUE, n + 1>>

\* Mutant: only the loop with index 0 signals.
loopRunDefer_OnlyFirst(lp) ==
    /\ lpState[lp] = "returned"
    /\ lpState' = [lpState EXCEPT ![lp] = "done"]
    /\ sigCalls' = [sigCalls EXCEPT ![lp] = IF lp = 0 THEN @ + 1 ELSE @]
    /\ once' = IF lp = 0 THEN signalShutdown(once, notified)[1] ELSE once
    /\ notified' = IF lp = 0 THEN signalShutdown(once, notified)[2] ELSE notified
    /\ UNCHANGED <<opts, connVars, pollerClosed, jobs, tickVars>>
    /\ last' = NoLast

\* The deferred call of loopRun.
loopRunDefer(lp) ==
    /\ lpState[lp] = "returned"
    /\ lpState' = [lpState EXCEPT ![lp] = "done"]
    /\ sigCalls' = [sigCalls EXCEPT ![lp] = @ + 1]
    /\ once' = signalShutdown(once, notified)[1]
    /\ notified' = signalShutdown(once, notified)[2]
    /\ UNCHANGED <<opts, connVars, pollerClosed, jobs, tickVars>>
    /\ last' = NoLast

\* When every loop has returned the server closes the Pollers.
ServerClosePollers ==
    /\ \A l \in RunLoops : lpState[l] = "done"
    /\ ~pollerClosed
    /\ pollerClosed' = TRUE
    /\ UNCHANGED <<opts, lpState, connVars, once, notified, sigCalls, jobs, tickVars>>
    /\ last' = NoLast

Next ==
    \/ \E lp \in Loops : loopRunStart(lp)
    \/ \E lp \in Loops, fd \in FDs : loopRunAccept(lp, fd)
    \/ \E lp \in Loops, fd \in FDs : loopRunOpened(lp, fd)
    \/ \E lp \in Loops, fd \in FDs : loopRunRead(lp, fd)
    \/ \E lp \in Loops, fd \in FDs : loopRunWrite(lp, fd)
    \/ \E lp \in Loops : loopRunTick(lp)
    \/ \E lp \in Loops : loopRunTickReturn(lp)
    \/ \E lp \in Loops : PollingError(lp)
    \/ \E lp \in Loops : loopRunDefer(lp)
    \/ ServerClosePollers
    \/ loopTickerTrigger
    \/ loopTickerRecv
    \/ loopTickerWake

Spec == Init /\ [][Next]_vars


(***************************************************************************)
(* A single loop serving one client, with the readiness notifications the  *)
(* Poller owes: while a connection has write interest registered and the   *)
(* socket takes bytes, a write that makes progress is eventually           *)
(* dispatched.                                                             *)
(***************************************************************************)
InitLive == InitWith([ticker |-> FALSE, udp |-> FALSE, nloops |-> 1, clients |-> 1])

NextLive ==
    \/ \E lp \in Loops : loopRunStart(lp)
    \/ \E lp \in Loops, fd \in FDs : loopRunAccept(lp, fd)
    \/ \E lp \in Loops, fd \in FDs : loopRunOpened(lp, fd)
    \/ \E lp \in Loops, fd \in FDs : loopRunRead(lp, fd)
    \/ \E lp \in Loops, fd \in FDs : loopRunWrite(lp, fd)
    \/ \E lp \in Loops : PollingError(lp)
    \/ \E lp \in Loops : loopRunDefer(lp)
    \/ ServerClosePollers

WriteProgress(lp, fd) ==
    /\ loopRunWrite(lp, fd)
    /\ "w" \in poller[lp][fd]
    /\ Len(hist'[connections[lp][fd].id].sent) > Len(hist[connections[lp][fd].id].sent)

SpecLive ==
    /\ InitLive
    /\ [][NextLive]_vars
    /\ \A lp \in Loops, fd \in ConnFDs : WF_vars(WriteProgress(lp, fd))

(***************************************************************************)
(* A single loop with the ticker and one client, with the scheduling the   *)
(* runtime and the Poller owe: a routine that can take a step takes it,    *)
(* and a job in the Poller's queue is run while the loop polls.            *)
(***************************************************************************)
InitTick == InitWith([ticker |-> TRUE, udp |-> FALSE, nloops |-> 1, clients |-> 1])

SpecTick ==
    /\ InitTick
    /\ [][Next]_vars
    /\ WF_vars(loopRunTick(0))
    /\ WF_vars(loopRunTickReturn(0))
    /\ WF_vars(loopTickerTrigger)
    /\ WF_vars(loopTickerRecv)
    /\ WF_vars(loopTickerWake)

(***************************************************************************)
(* Properties.                                                             *)
(***************************************************************************)
Has(op) == \E i \in 1..Len(last.trace) : last.trace[i].op = op

InTable(id) == \E lp \in Loops : \E fd \in DOMAIN connections[lp] : connections[lp][fd].id = id

\* C1: OnOpened is invoked exactly once for a connection, on its first
\* readiness after acceptance, and before any React for it: no connection
\* has seen OnOpened twice, a connection is marked opened exactly when
\* OnOpened has been invoked for it, React has been invoked only for
\* connections OnOpened was invoked for, any dispatch for a connection
\* leaves it with OnOpened invoked, and no dispatch invokes both.
C1_OpenedOnceBeforeReact ==
    /\ \A id \in ConnIds :
         /\ hist[id].opens <= 1
         /\ hist[id].reacts > 0 => hist[id].opens = 1
    /\ \A lp \in Loops : \A fd \in DOMAIN connections[lp] :
         connections[lp][fd].opened <=> hist[connections[lp][fd].id].opens = 1
    /\ last.proc \in {"Opened", "Read", "Write"} => hist[last.id].opens = 1
    /\ ~(Has("OnOpened") /\ Has("React"))

C1_Witness ==
    \E id \in ConnIds : hist[id].opens = 1 /\ hist[id].reacts = 2

\* C2: the bytes written to the socket are at every point a prefix of the
\* bytes queued for the connection, what is still in outBuf being exactly
\* the rest in order, also when outBuf wraps; and under the Poller's
\* readiness notifications a connection with output pending eventually
\* has it all delivered, unless the connection is closed or the loop stops.
C2_Conservation ==
    /\ \A id \in ConnIds : IsPrefix(hist[id].sent, Bytes(0, hist[id].queued))
    /\ \A lp \in Loops : \A fd \in DOMAIN connections[lp] :
         LET c == connections[lp][fd]
         IN  hist[c.id].sent \o Contents(c.outBuf) = Bytes(0, hist[c.id].queued)

C2_Pending(lp, fd) ==
    /\ lpState[lp] = "polling"
    /\ fd \in DOMAIN connections[lp]
    /\ Length(connections[lp][fd].outBuf) > 0

C2_NoLossOnPartialWrite ==
    /\ []C2_Conservation
    /\ \A lp \in Loops, fd \in ConnFDs : C2_Pending(lp, fd) ~> ~C2_Pending(lp, fd)

\* Both segments of a wrapped outBuf have been written in one dispatch and
\* everything queued, in three pieces, has been delivered.
C2_Witness ==
    /\ last.proc = "Write"
    /\ Cardinality({i \in 1..Len(last.trace) : last.trace[i].op = "write"}) = 2
    /\ hist[last.id].queued = 3
    /\ hist[last.id].sent = Bytes(0, 3)

\* C3: a connection that has been opened and whose outBuf is empty has no
\* write interest registered with the Poller.
C3_IdleNoWriteInterest ==
    \A lp \in Loops : \A fd \in DOMAIN connections[lp] :
        (connections[lp][fd].opened /\ Length(connections[lp][fd].outBuf) = 0)
            => "w" \notin poller[lp][fd]


Counters(id) == <<hist[id].opens, hist[id].reacts, hist[id].closes>>

\* A descriptor the last dispatch closed is no key of the table, is not
\* registered and is not open.
ClosedAbsent ==
    \A i \in 1..Len(last.trace) :
        last.trace[i].op = "close" =>
            /\ last.trace[i].n \notin DOMAIN connections[last.lp]
            /\ last.trace[i].n \notin DOMAIN poller[last.lp]
            /\ last.trace[i].n \notin openFds

\* C4 as stated: once loopCloseConn has run for a connection, the
\* connection is absent from the table and no callback is invoked for it
\* any more.
C4_Original ==
    [][\A id \in ConnIds :
          hist[id].closes > 0 => (~InTable(id) /\ Counters(id)' = Counters(id))]_vars

\* C4, amended: once loopCloseConn has run for a connection and
\* Poller.Delete succeeded, the connection's descriptor has left the table
\* (and is closed and deregistered), the connection never is in a table
\* again and no callback is invoked for it any more, whatever events arrive
\* for its descriptor.
C4_CloseIsTerminal ==
    [][/\ ClosedAbsent'
       /\ \A id \in ConnIds :
            hist[id].gone => /\ ~InTable(id)
                             /\ ~InTable(id)'
                             /\ hist[id].gone'
                             /\ Counters(id)' = Counters(id)]_vars

\* React has run for a new connection on the descriptor of a closed one.
C4_Witness ==
    \E id \in ConnIds :
        /\ hist[id].gone
        /\ last.fd = hist[id].fd
        /\ last.id # id
        /\ Has("React")

\* C5: every loop calls signalShutdown exactly once, when its Polling has
\* returned, and however many loops have done so there is exactly one
\* notification.
C5_ShutdownSingleFire ==
    /\ \A lp \in Loops :
         /\ sigCalls[lp] <= 1
         /\ sigCalls[lp] = 1 <=> lpState[lp] = "done"
    /\ notified <= 1
    /\ notified = 1 <=> \E lp \in Loops : sigCalls[lp] = 1
    /\ once <=> notified = 1

C5_Witness ==
    /\ opts.nloops = 2
    /\ \A lp \in RunLoops : sigCalls[lp] = 1
    /\ notified = 1

\* C6: inBuf of a connection holds exactly the bytes of the reads for which
\* React returned no output and an action other than DataRead, in the order
\* received.
C6_ReadBuffering ==
    \A lp \in Loops : \A fd \in DOMAIN connections[lp] :
        Contents(connections[lp][fd].inBuf) = hist[connections[lp][fd].id].expIn

\* The first byte received was not kept, the second was.
C6_Witness ==
    \E id \in ConnIds : InTable(id) /\ hist[id].rx = 2 /\ hist[id].expIn = <<2>>


Entries == 1..Len(last.trace)
Entry(i) == last.trace[i]
SendOps == {"send", "Sendto"}
ActionOps == {"handleAction", "action", "Delete", "close", "OnClosed"}

\* C7: in a dispatch whose callback (OnOpened, React, React of a datagram)
\* returned output bytes, those bytes are handed to the send path before
\* the action of the callback is interpreted: the send comes after the
\* callback and before anything that interprets the action or closes.
C7_OutputBeforeAction ==
    \A i \in Entries :
        (Entry(i).op \in {"OnOpened", "React"} /\ Entry(i).n > 0) =>
            \E j \in Entries :
                /\ j > i
                /\ Entry(j).op \in SendOps
                /\ Entry(j).n = Entry(i).n
                /\ \A h \in Entries : Entry(h).op \in ActionOps => h > j

\* React returned output and Close: the output was sent and the connection
\* closed.
C7_Witness ==
    /\ \E i \in Entries : Entry(i).op = "React" /\ Entry(i).n > 0 /\ Entry(i).x = Close
    /\ Has("send")
    /\ Has("close")

CloseNoOutput ==
    /\ last.proc = "Read"
    /\ \E i \in Entries : Entry(i).op = "React" /\ Entry(i).n = 0 /\ Entry(i).x = Close

DeleteOk == \E i \in Entries : Entry(i).op = "Delete" /\ Entry(i).x = "ok"

OnClosedWith(err) ==
    /\ Cardinality({i \in Entries : Entry(i).op = "OnClosed"}) = 1
    /\ \A i \in Entries : Entry(i).op = "OnClosed" => Entry(i).x = err

NoByteWritten == \A i \in Entries : Entry(i).op \notin (SendOps \cup {"write"})

Removed ==
    /\ last.fd \notin DOMAIN connections[last.lp]
    /\ last.fd \notin DOMAIN poller[last.lp]
    /\ last.fd \notin openFds

ErrorClose ==
    \A i \in Entries :
        (Entry(i).op \in {"read", "write"} /\ Entry(i).x \in HardErrs) =>
            OnClosedWith(Entry(i).x)

\* C8 as stated: React returning Close with no output leaves the connection
\* deregistered, removed and closed, with no byte written and OnClosed(nil);
\* a close on a read or write error passes that error to OnClosed.
C8_Original ==
    /\ CloseNoOutput => (Removed /\ NoByteWritten /\ OnClosedWith(Nil))
    /\ ErrorClose

\* C8, amended: when React returns Close with no output after a successful
\* read, no byte is written to the socket and OnClosed is invoked once with
\* a nil error; the connection is deregistered, removed from the table and
\* its descriptor closed exactly when Poller.Delete succeeds, and is left
\* in the table, registered and open when it fails.  A close on a read or
\* write error invokes OnClosed once with exactly that error.
C8_CloseWithoutOutput ==
    /\ CloseNoOutput =>
         /\ NoByteWritten
         /\ OnClosedWith(Nil)
         /\ DeleteOk => Removed
         /\ ~DeleteOk => /\ last.fd \in DOMAIN connections[last.lp]
                         /\ last.fd \in DOMAIN poller[last.lp]
                         /\ last.fd \in openFds
    /\ ErrorClose

C8_Witness == CloseNoOutput /\ DeleteOk /\ Removed

Fatal(l) ==
    /\ l.proc \in {"Read", "Write"}
    /\ \E i \in 1..Len(l.trace) :
         \/ /\ l.trace[i].op = "read"
            /\ \/ l.trace[i].x \in HardErrs
               \/ l.trace[i].x = Nil /\ l.trace[i].n = 0
         \/ l.trace[i].op = "write" /\ l.trace[i].x \in HardErrs

ClosedShutdown(l) ==
    \E i \in 1..Len(l.trace) : l.trace[i].op = "OnClosed" /\ l.trace[i].y = Shutdown

\* C9: a dispatch that meets a zero-byte read or a read/write error other
\* than EAGAIN on connection c changes nothing but c: the tables, pollers
\* and states of the other loops, every other entry of this loop's table
\* and its registration, the listener's registration and the histories of
\* the other connections are unchanged, no descriptor but c's is closed
\* (c's is, when Poller.Delete succeeds), OnClosed is invoked once, and
\* the dispatch returns nil with the loop still polling unless OnClosed
\* returned Shutdown, in which case it returns ErrClosing.
C9_FatalClosesOnlyThatConn ==
    [][Fatal(last') =>
        LET lp == last'.lp
            fd == last'.fd
        IN  /\ \A l2 \in Loops \ {lp} :
                 /\ connections'[l2] = connections[l2]
                 /\ poller'[l2] = poller[l2]
                 /\ lpState'[l2] = lpState[l2]
            /\ DOMAIN connections'[lp] \subseteq DOMAIN connections[lp]
            /\ \A f2 \in DOMAIN connections[lp] \ {fd} :
                 /\ f2 \in DOMAIN connections'[lp]
                 /\ connections'[lp][f2] = connections[lp][f2]
            /\ \A f2 \in DOMAIN poller[lp] \ {fd} :
                 /\ f2 \in DOMAIN poller'[lp]
                 /\ poller'[lp][f2] = poller[lp][f2]
            /\ \A id \in ConnIds \ {last'.id} : hist'[id] = hist[id]
            /\ openFds' \subseteq openFds
            /\ openFds \ openFds' \subseteq {fd}
            /\ jobs' = jobs
            /\ DeleteOk' => Removed'
            /\ Cardinality({i \in 1..Len(last'.trace) : last'.trace[i].op = "OnClosed"}) = 1
            /\ IF ClosedShutdown(last')
               THEN last'.ret = ErrClosing /\ lpState'[lp] = "returned"
               ELSE last'.ret = Nil /\ lpState'[lp] = "polling"]_vars

\* A read error closed one connection while the loop holds another.
C9_Witness ==
    /\ Fatal(last)
    /\ last.ret = Nil
    /\ DeleteOk
    /\ \E f2 \in DOMAIN connections[last.lp] : f2 # last.fd


ShutdownReturned ==
    \E i \in Entries :
        \/ Entry(i).op \in {"OnOpened", "React", "Tick"} /\ Entry(i).x = Shutdown
        \/ Entry(i).op = "OnClosed" /\ Entry(i).y = Shutdown

\* The action interpreted by the last dispatch is neither Close nor Shutdown.
OtherAction ==
    \E i \in Entries :
        /\ Entry(i).op \in {"handleAction", "action"}
        /\ Entry(i).x \notin {Close, Shutdown}

\* What a dispatch returns, and what becomes of the loop.
C10_Dispatch ==
    /\ ShutdownReturned =>
         \/ last.ret = ErrClosing /\ lpState[last.lp] = "returned"
         \/ last.proc = "Job" /\ last.ret = "pending" /\ lpState[last.lp] = "sending"
    /\ OtherAction =>
         /\ last.ret = Nil
         /\ lpState[last.lp] = "polling"
         /\ ~Has("Delete")
         /\ ~Has("close")
         /\ ~Has("OnClosed")
         /\ last.id # 0 => /\ last.fd \in DOMAIN connections[last.lp]
                           /\ connections[last.lp][last.fd].id = last.id
                           /\ last.fd \in openFds
    /\ (last.proc # "none" /\ last.ret = Nil) => lpState[last.lp] = "polling"
    /\ \A lp \in Loops : lpState[lp] = "returned" => ENABLED loopRunDefer(lp)

\* A loop whose Polling has returned dispatches nothing any more, and the
\* one step it takes is the deferred signalShutdown.
C10_Halted ==
    \A lp \in Loops :
        lpState[lp] \in {"returned", "done"} =>
            /\ lpState'[lp] \in {"returned", "done"}
            /\ connections'[lp] = connections[lp]
            /\ hist' = hist \/ last'.lp # lp
            /\ last'.proc # "none" => last'.lp # lp
            /\ (lpState[lp] = "returned" /\ lpState'[lp] = "done") =>
                  sigCalls'[lp] = sigCalls[lp] + 1

\* C10: a dispatch in which OnOpened, React (of a connection or of a
\* datagram), OnClosed or Tick returned Shutdown returns ErrClosing (the
\* tick job once its send on the channel has completed), the loop's Polling
\* returns, the loop dispatches nothing more and its next step is the
\* deferred signalShutdown; a dispatch that interprets an action other
\* than Close and Shutdown returns nil, leaves the loop polling and the
\* connection in the table, open.
C10_ShutdownStopsLoop ==
    /\ []C10_Dispatch
    /\ [][C10_Halted]_vars

\* Tick returned Shutdown, the job has returned ErrClosing and Polling has
\* returned.
C10_Witness ==
    /\ last.proc = "Job"
    /\ ShutdownReturned
    /\ last.ret = ErrClosing
    /\ lpState[last.lp] = "returned"


Count(l, ops) == Cardinality({i \in 1..Len(l.trace) : l.trace[i].op \in ops})

\* The datagram received by dispatch l, if one was.
Received(l) ==
    \E i \in 1..Len(l.trace) :
        l.trace[i].op = "Recvfrom" /\ l.trace[i].x = Nil /\ l.trace[i].n > 0

\* C11: a dispatch of loopUDPRead leaves the connections tables, the Poller
\* registrations, the open descriptors and the connection histories
\* unchanged; it invokes React once if Recvfrom returned more than zero
\* bytes and no error (with exactly the received bytes in inBuf), and not at
\* all otherwise; if React returned M > 0 bytes there is one Sendto, of M
\* bytes, to the address Recvfrom gave, and none if M = 0; OnClosed is not
\* invoked, nothing is closed; and the dispatch returns ErrClosing exactly
\* when React returned Shutdown, whether or not Sendto failed.
C11_DatagramPath ==
    [][last'.proc = "UDPRead" =>
        LET l == last'
            T == l.trace
            N == 1..Len(T)
        IN  /\ connections' = connections
            /\ poller' = poller
            /\ openFds' = openFds
            /\ hist' = hist
            /\ nextId' = nextId
            /\ Count(l, {"Recvfrom"}) = 1
            /\ Count(l, {"React"}) = IF Received(l) THEN 1 ELSE 0
            /\ Count(l, {"OnClosed", "OnOpened", "Delete", "close", "accept"}) = 0
            /\ \A i \in N : T[i].op = "React" =>
                 /\ T[i].m = T[1].n
                 /\ Count(l, {"Sendto"}) = IF T[i].n > 0 THEN 1 ELSE 0
                 /\ \A j \in N : T[j].op = "Sendto" =>
                      j > i /\ T[j].n = T[i].n /\ T[j].y = T[1].y
                 /\ l.ret = IF T[i].x = Shutdown THEN ErrClosing ELSE Nil
            /\ ~Received(l) => (l.ret = Nil /\ Count(l, {"Sendto"}) = 0)]_vars

\* A reply of two bytes to address B failed to be sent and the loop goes on.
C11_Witness ==
    /\ last.proc = "UDPRead"
    /\ \E i \in Entries :
         Entry(i).op = "Sendto" /\ Entry(i).n = 2 /\ Entry(i).x = "fail" /\ Entry(i).y = "B"
    /\ last.ret = Nil
    /\ lpState[last.lp] = "polling"


ConnCallbacks == {"OnOpened", "React", "PreWrite", "OnClosed"}

\* Tick runs in a dispatch of the job on loop 0 and in no other, and the
\* job is in progress exactly while loop 0 is inside it.
C12_TickOnLoop ==
    /\ Has("Tick") => /\ last.proc = "Job"
                      /\ last.fd = 0
                      /\ last.lp = 0
                      /\ Count(last, ConnCallbacks) = 0
    /\ last.proc = "Job" => Count(last, {"Tick"}) = 1
    /\ tickJob # << >> <=> lpState[0] = "sending"
    /\ \A lp \in Loops \ {0} : lpState[lp] # "sending"

\* While a loop is inside a dispatch nothing but the end of that dispatch
\* happens on it; the ticker routine invokes no callback and changes no
\* table; the tick job starts on a polling loop, from its job queue.
C12_OneAtATime ==
    /\ \A lp \in Loops :
         lpState[lp] = "sending" =>
            /\ connections'[lp] = connections[lp]
            /\ poller'[lp] = poller[lp]
            /\ (last'.proc # "none" /\ last'.lp = lp) =>
                  (last'.proc = "Job" /\ last'.ret # "pending" /\ lpState'[lp] # "sending")
    /\ (tickerPc # "off" /\ tickerPc' # tickerPc) =>
            /\ last'.proc = "none"
            /\ connections' = connections
            /\ poller' = poller
            /\ hist' = hist
            /\ lpState' = lpState
    /\ last'.ret = "pending" =>
            /\ lpState[0] = "polling"
            /\ jobs[0] # << >>
            /\ connections' = connections
            /\ hist' = hist

\* C12: the callbacks of one loop are never in progress together: a
\* dispatch is handled to its end before the loop takes the next event, and
\* Tick, though asked for by the ticker routine, runs only inside the job
\* (fd = 0) dispatched by loop 0 itself, in a dispatch that invokes no
\* other callback and changes no connections table.
C12_CallbacksSerial ==
    /\ []C12_TickOnLoop
    /\ [][C12_OneAtATime]_vars

\* The tick job is in progress on a loop that holds a connection.
C12_Witness ==
    /\ lpState[0] = "sending"
    /\ connections[0] # << >>
    /\ Has("Tick")


\* The first call a procedure makes, and the calls only other procedures make.
FirstCall(proc) ==
    CASE proc = "Opened" -> "OnOpened"
      [] proc = "Write" -> "PreWrite"
      [] proc = "Read" -> "read"
      [] proc = "Accept" -> "accept"
      [] proc = "UDPRead" -> "Recvfrom"
      [] proc = "Job" -> "Tick"

Foreign(proc) ==
    CASE proc = "Opened" -> {"PreWrite", "write", "read", "React", "accept", "Recvfrom", "Tick"}
      [] proc = "Write" -> {"OnOpened", "read", "React", "accept", "Recvfrom", "Tick",
                            "handleAction", "action", "send"}
      [] proc = "Read" -> {"OnOpened", "PreWrite", "write", "accept", "Recvfrom", "Tick"}
      [] proc = "Accept" -> {"OnOpened", "PreWrite", "write", "read", "React", "Recvfrom",
                             "Tick", "OnClosed", "handleAction"}
      [] proc = "UDPRead" -> {"OnOpened", "write", "read", "accept", "Tick", "OnClosed",
                              "handleAction"}
      [] proc = "Job" -> {"OnOpened", "PreWrite", "write", "read", "React", "accept",
                          "Recvfrom", "OnClosed", "handleAction"}

\* C13: every dispatch runs one procedure, chosen from the table as it is
\* when the event arrives: the job for fd = 0; for an fd in the table,
\* Opened if the connection is not opened, else Write if its outBuf is not
\* empty, else Read; Accept (which reads a datagram on a datagram listener)
\* for an fd that is not in the table.  So React is invoked for a connection
\* only when it is opened and its outBuf is empty, and a dispatch of
\* loopWrite interprets no Action.
C13_Routing ==
    [][last'.proc # "none" =>
        LET l == last'
            lp == l.lp
            fd == l.fd
            tab == connections[lp]
        IN  /\ l.proc = "Job" <=> fd = 0
            /\ fd # 0 => lpState[lp] = "polling"
            /\ (fd # 0 /\ fd \in DOMAIN tab) =>
                 /\ l.id = tab[fd].id
                 /\ l.proc = IF ~tab[fd].opened THEN "Opened"
                             ELSE IF Length(tab[fd].outBuf) > 0 THEN "Write"
                             ELSE "Read"
            /\ (fd # 0 /\ fd \notin DOMAIN tab) =>
                 l.proc = IF fd = ListenFd /\ opts.udp THEN "UDPRead" ELSE "Accept"
            /\ l.trace # << >> => l.trace[1].op = FirstCall(l.proc)
            /\ l.trace = << >> => (l.proc = "Accept" /\ fd # ListenFd /\ l.ret = Nil)
            /\ Count(l, Foreign(l.proc)) = 0
            /\ (l.proc = "Read" /\ Count(l, {"React"}) > 0) =>
                 (tab[fd].opened /\ Length(tab[fd].outBuf) = 0)]_vars

\* Write was chosen for an opened connection with output pending, and has
\* drained it.
C13_Witness ==
    /\ last.proc = "Write"
    /\ Has("ModRead")
    /\ hist[last.id].reacts > 0


\* Dispatch l did nothing to the connection before it called loopCloseConn.
Untouched(l) ==
    /\ Count(l, {"OnOpened", "send", "inBuf.Write"}) = 0
    /\ \A i \in 1..Len(l.trace) : l.trace[i].op = "write" => l.trace[i].m = 0

\* C14: a call of loopCloseConn removes the connection from the table,
\* deregisters it and closes its descriptor exactly when Poller.Delete
\* succeeded; when Delete failed the connection stays in the table,
\* registered, its descriptor open, and what the dispatch had not changed
\* before the call is as it was.  Either way the call invokes OnClosed once,
\* after Delete.
C14_CloseOnlyIfDeregistered ==
    [][\A i \in 1..Len(last'.trace) :
        last'.trace[i].op = "Delete" =>
          LET l == last'
              lp == l.lp
              fd == l.trace[i].n
          IN  /\ fd = l.fd
              /\ fd \in DOMAIN connections[lp]
              /\ Count(l, {"Delete"}) = 1
              /\ Count(l, {"OnClosed"}) = 1
              /\ \A j \in 1..Len(l.trace) : l.trace[j].op = "OnClosed" =>
                   (j > i /\ l.trace[j].m = connections[lp][fd].id)
              /\ hist'[l.id].closes = hist[l.id].closes + 1
              /\ IF l.trace[i].x = "ok"
                 THEN /\ fd \notin DOMAIN connections'[lp]
                      /\ fd \notin DOMAIN poller'[lp]
                      /\ fd \notin openFds'
                      /\ Count(l, {"close"}) = 1
                 ELSE /\ fd \in DOMAIN connections'[lp]
                      /\ fd \in DOMAIN poller'[lp]
                      /\ fd \in openFds'
                      /\ Count(l, {"close"}) = 0
                      /\ connections'[lp][fd].id = connections[lp][fd].id
                      /\ connections'[lp][fd].opened
                      /\ Untouched(l) => /\ connections'[lp][fd] = connections[lp][fd]
                                         /\ poller'[lp][fd] = poller[lp][fd]]_vars

\* Delete failed on a read error: OnClosed has run and the connection is
\* still in the table.
C14_Witness ==
    /\ last.proc = "Read"
    /\ \E i \in Entries : Entry(i).op = "Delete" /\ Entry(i).x = "fail"
    /\ Has("OnClosed")
    /\ ~Has("React")
    /\ last.fd \in DOMAIN connections[last.lp]


\* Dispatch l met EAGAIN in call op.
WouldBlock(l, op) ==
    \E i \in 1..Len(l.trace) : l.trace[i].op = op /\ l.trace[i].x = EAGAIN

\* C15: EAGAIN changes nothing and is no error.  On accept: no connection,
\* no descriptor, nothing registered.  On read: no React, no close, the
\* connection (inBuf included) as it was.  On the first or the second
\* segment write of loopWrite: no close, no OnClosed, the registration as
\* it was (write interest kept), and outBuf holds, in order, the bytes not
\* yet written: all of them for the first segment, the second segment for
\* the second.  The dispatch returns nil and the loop keeps polling.
C15_WouldBlockIsNoOp ==
    [][LET l == last'
           lp == l.lp
           fd == l.fd
       IN  /\ (l.proc = "Accept" /\ WouldBlock(l, "accept")) =>
                 /\ Len(l.trace) = 1
                 /\ UNCHANGED <<connections, poller, openFds, hist, nextId>>
                 /\ l.ret = Nil
                 /\ lpState'[lp] = "polling"
           /\ (l.proc = "Read" /\ WouldBlock(l, "read")) =>
                 /\ Len(l.trace) = 1
                 /\ UNCHANGED <<connections, poller, openFds, hist, nextId>>
                 /\ l.ret = Nil
                 /\ lpState'[lp] = "polling"
           /\ (l.proc = "Write" /\ WouldBlock(l, "write")) =>
                 /\ Count(l, {"Delete", "close", "OnClosed", "ModRead"}) = 0
                 /\ l.trace[Len(l.trace)].x = EAGAIN
                 /\ poller' = poller
                 /\ "w" \in poller'[lp][fd]
                 /\ openFds' = openFds
                 /\ DOMAIN connections'[lp] = DOMAIN connections[lp]
                 /\ \A f \in DOMAIN connections[lp] \ {fd} :
                      connections'[lp][f] = connections[lp][f]
                 /\ connections'[lp][fd].inBuf = connections[lp][fd].inBuf
                 /\ IF Count(l, {"write"}) = 1
                    THEN connections' = connections /\ hist' = hist
                    ELSE /\ Count(l, {"write"}) = 2
                         /\ Contents(connections'[lp][fd].outBuf) =
                               PreReadAll(connections[lp][fd].outBuf)[2]
                         /\ hist'[l.id].sent =
                               hist[l.id].sent \o PreReadAll(connections[lp][fd].outBuf)[1]
                 /\ l.ret = Nil
                 /\ lpState'[lp] = "polling"]_vars

\* The first segment of a wrapped outBuf was written and the second met
\* EAGAIN.
C15_Witness ==
    /\ last.proc = "Write"
    /\ Count(last, {"write"}) = 2
    /\ WouldBlock(last, "write")
    /\ Length(connections[last.lp][last.fd].outBuf) > 0


\* At most one tick job is outstanding (queued, or running with its delay
\* not yet taken), on loop 0 and only while the ticker routine waits for its
\* delay; the channel holds the delay of the running job; an exited ticker
\* has left no job behind.
C16_OneJob ==
    /\ Len(jobs[0]) + Len(tch) <= 1
    /\ \A lp \in Loops \ {0} : jobs[lp] = << >>
    /\ (jobs[0] # << >> \/ tch # << >>) => tickerPc = "recv"
    /\ tch # << >> => (tickJob # << >> /\ tch = <<tickJob[1].delay>>)
    /\ tickerPc = "exited" => (jobs[0] = << >> /\ tickJob = << >> /\ tch = << >>)

\* The steps of the cycle: Tick publishes its delay once; the ticker
\* routine receives that delay and sleeps for it; a job is submitted only
\* by the ticker routine when it is about to wait for the delay; a failed
\* submission ends the routine, and then no job is submitted and Tick is not
\* invoked any more.
C16_Cycle ==
    /\ last'.ret = "pending" =>
          (tch = << >> /\ tch' = <<last'.trace[1].n>> /\ Count(last', {"tch<-"}) = 1)
    /\ (tickerPc = "recv" /\ tickerPc' # "recv") =>
          (tickerPc' = "sleep" /\ tch # << >> /\ slept' = tch[1] /\ tch' = << >>)
    /\ tickerPc = "sleep" => (tickerPc' \in {"sleep", "trigger"} /\ jobs' = jobs)
    /\ Len(jobs'[0]) > Len(jobs[0]) => (tickerPc = "trigger" /\ tickerPc' = "recv")
    /\ (tickerPc = "trigger" /\ tickerPc' = "exited") => jobs' = jobs
    /\ tickerPc = "exited" =>
          (tickerPc' = "exited" /\ jobs' = jobs /\ last'.proc # "Job")

\* C16: at most one tick job is outstanding; every Tick publishes one delay,
\* which the ticker routine receives and sleeps for before it submits the
\* next job; after a failed Trigger the routine has exited and Tick is not
\* invoked again; and while loop 0 runs, the job's send of the delay and the
\* routine's receive both complete.
C16_TickerSequencing ==
    /\ []C16_OneJob
    /\ [][C16_Cycle]_vars
    /\ (lpState[0] = "sending") ~> (lpState[0] # "sending")
    /\ (tickerPc = "recv" /\ lpState[0] = "polling")
          ~> (tickerPc # "recv" \/ lpState[0] \notin {"polling", "sending"})

\* The ticker has slept for a delay of two and has exited on a failed
\* Trigger.
C16_Witness ==
    /\ tickerPc = "exited"
    /\ slept = 2


\* The last dispatch closed its connection on a Close returned together
\* with output by OnOpened or React.
ClosedWithOutput ==
    /\ last.proc \in {"Opened", "Read"}
    /\ \E i \in Entries :
         /\ Entry(i).op \in {"OnOpened", "React"}
         /\ Entry(i).n > 0
         /\ Entry(i).x = Close
    /\ Has("close")

\* C17: when OnOpened or React returns output together with Close, every
\* byte of the output has been written to the peer when the descriptor is
\* closed.
C17_OutputWrittenBeforeClose ==
    ClosedWithOutput => hist[last.id].sent = Bytes(0, hist[last.id].queued)


\* C18: once loop 0 has stopped, the ticker routine is not left waiting on
\* the handoff channel for a delay that no job will send any more (the
\* jobs of a stopped loop are not run).
C18_TickerNotStuck ==
    lpState[0] \in {"returned", "done"} => ~(tickerPc = "recv" /\ tch = << >>)

\* C19: a descriptor obtained from accept is in a connections table and
\* registered with that loop's Poller, or it has been closed.
C19_NoLeakOnAccept ==
    \A fd \in openFds :
        \E lp \in Loops : fd \in DOMAIN connections[lp] /\ fd \in DOMAIN poller[lp]

\* A descriptor of dispatch l on which call op had outcome x.
Outcome(l, op, fd, x) ==
    \E i \in 1..Len(l.trace) :
        l.trace[i].op = op /\ l.trace[i].n = fd /\ l.trace[i].x = x

\* Between dispatches a descriptor is a key of a loop's table exactly when
\* it is registered with that loop's Poller and open.
C20_Consistent ==
    \A lp \in Loops, fd \in ConnFDs :
        fd \in DOMAIN connections[lp] <=> (fd \in DOMAIN poller[lp] /\ fd \in openFds)

\* A key is added by a dispatch of loopAccept in which AddReadWrite
\* succeeded, and removed (and the descriptor closed) by a dispatch in which
\* Poller.Delete succeeded.
C20_Changes ==
    \A lp \in Loops, fd \in ConnFDs :
        /\ (fd \notin DOMAIN connections[lp] /\ fd \in DOMAIN connections'[lp]) =>
              (last'.proc = "Accept" /\ last'.lp = lp /\ Outcome(last', "AddReadWrite", fd, "ok"))
        /\ (fd \in DOMAIN connections[lp] /\ fd \notin DOMAIN connections'[lp]) =>
              (last'.lp = lp /\ last'.fd = fd /\ Outcome(last', "Delete", fd, "ok"))
        /\ (fd \in openFds /\ fd \notin openFds' /\ fd \in DOMAIN connections[lp]) =>
              (last'.lp = lp /\ Outcome(last', "Delete", fd, "ok"))

\* C20: in every state between dispatches, a descriptor other than the
\* listener is a key of a loop's connections table if and only if it is
\* registered with that loop's Poller and open; a key is added only after
\* AddReadWrite succeeded and removed, the descriptor closed, only after
\* Delete succeeded.
C20_TablePollerConsistency ==
    /\ []C20_Consistent
    /\ [][C20_Changes]_vars

\* One connection is in the table, registered and open, beside an accepted
\* descriptor that is open, unregistered and in no table.
C20_Witness ==
    /\ \E fd \in openFds : \A lp \in Loops : fd \notin DOMAIN connections[lp]
    /\ \E lp \in Loops : connections[lp] # << >>

====
